---- MODULE Spec2Model ----
(***************************************************************************)
(* Model of gas-oracle/oracle/gas_price_oracle.go: construction of the     *)
(* GasPriceOracle (NewGasPriceOracle, ensureConnection, ensure), its       *)
(* lifecycle (Start, Stop, Wait), the three ticker loops (Loop,            *)
(* BaseFeeLoop, DaFeeLoop) and the per-tick Update of the L2 gas price.    *)
(* The gasprices package (GasPricer, GasPriceUpdater) is not part of the   *)
(* file; its update step follows section 4.4 of the design document.       *)
(***************************************************************************)
EXTENDS Integers, Sequences, FiniteSets, TLC

\* ------------------------------------------------------------------ bounds

\* ensureConnection gives up when retries > 90 (gas_price_oracle.go:375).
MaxRetries == 90

\* Longest L2 chain the environment produces.
MaxBlocks == 3

\* Timer fires counted per loop after Stop() (the counter saturates here).
MaxFiresAfterStop == 3

\* ------------------------------------------------------------------ values

Nil == "nil"

ChainIds == {"1", "5000"}

\* The chain id each endpoint reports live.
LiveChainID == [L1 |-> "1", L2 |-> "5000"]

Keys == {"k1", "k2"}

Addresses == {"a1", "a2"}

\* Hex strings an operator may configure as HsmAddress.
HsmStrings == {"0xA1", "0xa2"}

LoopNames == {"Loop", "BaseFeeLoop", "DaFeeLoop"}

\* Gas a single L2 block may have used.
BlockGas == {0, 1000}

\* Rates the price feed may report.
Rates == {1, 2}

VARIABLES
    cfg,                    \* *Config, shared with the caller
    owner,                  \* owner recorded in the BVM_GasPriceOracle contract
    pc,                     \* position of the caller: in NewGasPriceOracle, then Start
    newResult,              \* error returned by NewGasPriceOracle ("pending" until it returns)
    startResult,            \* error returned by Start
    connPhase,              \* position inside ensureConnection
    retries,                \* ensureConnection's local retries
    queries,                \* ChainID queries issued by the running ensureConnection
    ticks,                  \* receives from t.C by the running ensureConnection
    l1ChainID,              \* live value read at line 279
    l2ChainID,              \* live value read at line 275
    ownerRead,              \* owner returned to ensure()
    guardLog,               \* startup guards NewGasPriceOracle has run, in order
    loops,                  \* state of each goroutine
    ctxDone,                \* whether g.ctx is cancelled
    stopClosed,             \* whether g.stop is closed
    waitState,              \* the goroutine calling Wait()
    crashed,                \* the process died of a panic
    stopCalls,              \* Stop() calls made by the caller
    firesAfterStop,         \* timer fires each loop took after Stop()
    cancelTaken,            \* times each loop took the ctx.Done() branch
    lastReturn,             \* the last update call to return: its loop and error when it failed
    chain,                  \* gas used by each L2 block
    onChainPrice,           \* gasPrice stored in the contract
    epochStartBlockNumber,  \* start of the updater's epoch window
    rate,                   \* conversion rate of the price feed
    lastTick                \* what the last completed Update() did

vars == <<cfg, owner, pc, newResult, startResult, connPhase, retries, queries,
          ticks, l1ChainID, l2ChainID, ownerRead, guardLog, loops, ctxDone,
          stopClosed, waitState, crashed, stopCalls, firesAfterStop,
          cancelTaken, lastReturn, chain, onChainPrice, epochStartBlockNumber,
          rate, lastTick>>

lifeVars == <<loops, ctxDone, stopClosed, waitState, crashed, stopCalls,
              firesAfterStop, cancelTaken, lastReturn>>

ctlVars == <<chain, onChainPrice, epochStartBlockNumber, rate, lastTick>>

connVars == <<connPhase, retries, queries, ticks>>

\* ----------------------------------------------------------------- helpers

\* crypto.PubkeyToAddress: each key has its own address.
PubkeyToAddress(k) == IF k = "k1" THEN "a1" ELSE "a2"

\* common.HexToAddress: hex digits are read case-insensitively.
HexToAddress(s) ==
    CASE s = "0xA1" -> "a1"
      [] s = "0xa1" -> "a1"
      [] s = "0xA2" -> "a2"
      [] s = "0xa2" -> "a2"
      [] OTHER -> "a0"

NoTick == [kind |-> "none"]

NoReturn == [loop |-> "none", err |-> "nil"]

\* Lines 137-139, 158-160, 179-181: what the loop's if err != nil sees.
Returned(l, err) == IF err = "nil" THEN NoReturn ELSE [loop |-> l, err |-> err]

\* A startup guard of NewGasPriceOracle that has returned, and how.
Guard(name, ok) == [guard |-> name, ok |-> ok]

\* Lines 233, 238, 357: the guards of a construction that succeeded.
GuardsPassed ==
    <<Guard("ensureConnectionL2", TRUE), Guard("ensureConnectionL1", TRUE),
      Guard("ensure", TRUE)>>

\* ensure() with the HSM branch lost: the key's address whatever EnableHsm.
SigningAddressKeyOnly(c) == PubkeyToAddress(c.privateKey)

\* The address the process signs with (Start 60-68, ensure 115-120).
SigningAddress(c) ==
    IF c.EnableHsm THEN HexToAddress(c.HsmAddress)
                   ELSE PubkeyToAddress(c.privateKey)

\* ------------------------------------------------------------------- Init

LifeConfigs ==
    [l1ChainID : ChainIds \cup {Nil}, l2ChainID : ChainIds \cup {Nil},
     EnableHsm : BOOLEAN, HsmAddress : HsmStrings, privateKey : Keys \cup {Nil},
     enableL1BaseFee : BOOLEAN, enableDaFee : BOOLEAN, enableL2GasPrice : BOOLEAN,
     floorPrice : {600}, maxPercentChangePerEpoch : {10},
     averageBlockGasLimitPerEpoch : {500}]

CtlConfigs ==
    [l1ChainID : {"1"}, l2ChainID : {"5000"},
     EnableHsm : {FALSE}, HsmAddress : {"0xa2"}, privateKey : {"k1"},
     enableL1BaseFee : {FALSE}, enableDaFee : {FALSE}, enableL2GasPrice : {TRUE},
     floorPrice : {0, 600}, maxPercentChangePerEpoch : {10, 50},
     averageBlockGasLimitPerEpoch : {500}]

\* The process before NewGasPriceOracle is called: nothing is connected, no
\* goroutine runs, the stop channel is open.
InitWith(configs, owners, prices, rates) ==
    /\ cfg \in configs
    /\ owner \in owners
    /\ pc = "dial"
    /\ newResult = "pending"
    /\ startResult = "pending"
    /\ connPhase = "idle"
    /\ retries = 0
    /\ queries = 0
    /\ ticks = 0
    /\ l1ChainID = Nil
    /\ l2ChainID = Nil
    /\ ownerRead = Nil
    /\ guardLog = <<>>
    /\ loops = [l \in LoopNames |-> "notLaunched"]
    /\ ctxDone = FALSE
    /\ stopClosed = FALSE
    /\ waitState = "idle"
    /\ crashed = FALSE
    /\ stopCalls = 0
    /\ firesAfterStop = [l \in LoopNames |-> 0]
    /\ cancelTaken = [l \in LoopNames |-> 0]
    /\ lastReturn = NoReturn
    /\ chain = <<>>
    /\ onChainPrice \in prices
    /\ epochStartBlockNumber = 0
    /\ rate \in rates
    /\ lastTick = NoTick

Init == InitWith(LifeConfigs, {"a1"}, {1000}, {1})

GuardConfigs ==
    [l1ChainID : {"1"}, l2ChainID : {"5000"},
     EnableHsm : BOOLEAN, HsmAddress : {"0xA1"}, privateKey : {"k1", "k2"},
     enableL1BaseFee : BOOLEAN, enableDaFee : BOOLEAN, enableL2GasPrice : BOOLEAN,
     floorPrice : {600}, maxPercentChangePerEpoch : {10},
     averageBlockGasLimitPerEpoch : {500}]

InitGuards == InitWith(GuardConfigs, Addresses, {1000}, {1})

\* The process when NewGasPriceOracle has returned an oracle: the chain ids
\* are in the config, the signer is the owner, the epoch starts at the tip.
InitCtl ==
    /\ cfg \in CtlConfigs
    /\ owner = "a1"
    /\ pc = "constructed"
    /\ newResult = "nil"
    /\ startResult = "pending"
    /\ connPhase = "idle"
    /\ retries = 0
    /\ queries = 0
    /\ ticks = 0
    /\ l1ChainID = LiveChainID.L1
    /\ l2ChainID = LiveChainID.L2
    /\ ownerRead = "a1"
    /\ guardLog = GuardsPassed
    /\ loops = [l \in LoopNames |-> "notLaunched"]
    /\ ctxDone = FALSE
    /\ stopClosed = FALSE
    /\ waitState = "idle"
    /\ crashed = FALSE
    /\ stopCalls = 0
    /\ firesAfterStop = [l \in LoopNames |-> 0]
    /\ cancelTaken = [l \in LoopNames |-> 0]
    /\ lastReturn = NoReturn
    /\ chain = <<>>
    /\ onChainPrice = 1000
    /\ epochStartBlockNumber = 0
    /\ rate \in Rates
    /\ lastTick = NoTick

CancelConfigs ==
    [l1ChainID : {"1"}, l2ChainID : {"5000"},
     EnableHsm : {FALSE}, HsmAddress : {"0xa2"}, privateKey : {"k1"},
     enableL1BaseFee : BOOLEAN, enableDaFee : {FALSE}, enableL2GasPrice : {TRUE},
     floorPrice : {600}, maxPercentChangePerEpoch : {10},
     averageBlockGasLimitPerEpoch : {500}]

\* A constructed oracle, as InitCtl, with one or two loops enabled.
InitCancel ==
    /\ cfg \in CancelConfigs
    /\ owner = "a1"
    /\ pc = "constructed"
    /\ newResult = "nil"
    /\ startResult = "pending"
    /\ connPhase = "idle"
    /\ retries = 0
    /\ queries = 0
    /\ ticks = 0
    /\ l1ChainID = LiveChainID.L1
    /\ l2ChainID = LiveChainID.L2
    /\ ownerRead = "a1"
    /\ guardLog = GuardsPassed
    /\ loops = [l \in LoopNames |-> "notLaunched"]
    /\ ctxDone = FALSE
    /\ stopClosed = FALSE
    /\ waitState = "idle"
    /\ crashed = FALSE
    /\ stopCalls = 0
    /\ firesAfterStop = [l \in LoopNames |-> 0]
    /\ cancelTaken = [l \in LoopNames |-> 0]
    /\ lastReturn = NoReturn
    /\ chain = <<>>
    /\ onChainPrice = 1000
    /\ epochStartBlockNumber = 0
    /\ rate = 1
    /\ lastTick = NoTick

\* ------------------------------------------------------ NewGasPriceOracle

\* return nil, err
Fail(err) ==
    /\ pc' = "failed"
    /\ newResult' = err

\* Lines 216-241 without the call of line 233: the L2 endpoint is never
\* checked.
DialSkipsL2Check ==
    /\ pc = "dial"
    /\ ~crashed
    /\ \E out \in {"ok", "errTokenPricer", "errDial"} :
         IF out = "ok"
         THEN /\ pc' = "ensureL1"
              /\ connPhase' = "query"
              /\ UNCHANGED newResult
         ELSE /\ Fail(out)
              /\ UNCHANGED connPhase
    /\ UNCHANGED <<cfg, owner, startResult, retries, queries, ticks, l1ChainID,
                   l2ChainID, ownerRead, guardLog, lifeVars, ctlVars>>

\* Lines 216-230: the token price client and the two chain clients.
Dial ==
    /\ pc = "dial"
    /\ ~crashed
    /\ \E out \in {"ok", "errTokenPricer", "errDial"} :
         IF out = "ok"
         THEN /\ pc' = "ensureL2"
              /\ connPhase' = "query"
              /\ UNCHANGED newResult
         ELSE /\ Fail(out)
              /\ UNCHANGED connPhase
    /\ UNCHANGED <<cfg, owner, startResult, retries, queries, ticks, l1ChainID,
                   l2ChainID, ownerRead, guardLog, lifeVars, ctlVars>>

InEnsureConnection == pc \in {"ensureL2", "ensureL1"}

\* Line 375 with >= for >.
GivesUpAtCap(r) == r >= MaxRetries

\* Line 375 with the retries counted from one: a further query is allowed.
GivesUpLate(r) == r > MaxRetries + 1

\* Line 375: ensureConnection returns the error.
GivesUp(r) == r > MaxRetries

\* Lines 370-378: one ChainID query of ensureConnection and what follows it.
EnsureQuery ==
    /\ InEnsureConnection
    /\ ~crashed
    /\ connPhase = "query"
    /\ queries' = queries + 1
    /\ \E ok \in BOOLEAN :
         IF ok
         THEN /\ connPhase' = "nil"
              /\ UNCHANGED retries
         ELSE /\ retries' = retries + 1
              /\ connPhase' = IF GivesUp(retries + 1) THEN "err" ELSE "tick"
    /\ UNCHANGED <<cfg, owner, pc, newResult, startResult, ticks, l1ChainID,
                   l2ChainID, ownerRead, guardLog, lifeVars, ctlVars>>

\* Line 369: the post statement <-t.C of the for loop.
EnsureTick ==
    /\ InEnsureConnection
    /\ ~crashed
    /\ connPhase = "tick"
    /\ ticks' = ticks + 1
    /\ connPhase' = "query"
    /\ UNCHANGED <<cfg, owner, pc, newResult, startResult, retries, queries,
                   l1ChainID, l2ChainID, ownerRead, guardLog, lifeVars, ctlVars>>

\* Lines 233-241: ensureConnection has returned to NewGasPriceOracle; its
\* locals are gone.
ConnReturn ==
    /\ InEnsureConnection
    /\ ~crashed
    /\ connPhase \in {"nil", "err"}
    /\ IF connPhase = "err"
       THEN /\ Fail("errConnection")
            /\ connPhase' = "idle"
       ELSE /\ pc' = IF pc = "ensureL2" THEN "ensureL1" ELSE "bind"
            /\ connPhase' = IF pc = "ensureL2" THEN "query" ELSE "idle"
            /\ UNCHANGED newResult
    /\ guardLog' = Append(guardLog,
                          Guard(IF pc = "ensureL2" THEN "ensureConnectionL2"
                                                   ELSE "ensureConnectionL1",
                                connPhase = "nil"))
    /\ retries' = 0
    /\ queries' = 0
    /\ ticks' = 0
    /\ UNCHANGED <<cfg, owner, startResult, l1ChainID, l2ChainID, ownerRead,
                   lifeVars, ctlVars>>

\* Lines 243-273: bind the contract, read the current price, build the pricer.
Bind ==
    /\ pc = "bind"
    /\ ~crashed
    /\ \E out \in {"ok", "errBind", "errGasPrice", "errGasPricer"} :
         IF out = "ok"
         THEN pc' = "chainIDs" /\ UNCHANGED newResult
         ELSE Fail(out)
    /\ UNCHANGED <<cfg, owner, startResult, connVars, l1ChainID, l2ChainID,
                   ownerRead, guardLog, lifeVars, ctlVars>>

\* Lines 275-282: the live chain ids, L2 first.
ReadChainIDs ==
    /\ pc = "chainIDs"
    /\ ~crashed
    /\ \E out \in {"ok", "errL2", "errL1"} :
         /\ l2ChainID' = IF out = "errL2" THEN l2ChainID ELSE LiveChainID.L2
         /\ l1ChainID' = IF out = "ok" THEN LiveChainID.L1 ELSE l1ChainID
         /\ IF out = "ok"
            THEN pc' = "checkL2" /\ UNCHANGED newResult
            ELSE Fail("errRPC")
    /\ UNCHANGED <<cfg, owner, startResult, connVars, ownerRead, guardLog, lifeVars,
                   ctlVars>>

\* Lines 285 and 294 with the comparison inverted.
WrongChainIDInverted(configured, live) == configured = live

\* Lines 285 and 294: cfg.lXChainID.Cmp(lXChainID) != 0.
WrongChainID(configured, live) == configured # live

\* Lines 284-291.
CheckL2ChainID ==
    /\ pc = "checkL2"
    /\ ~crashed
    /\ IF cfg.l2ChainID # Nil
       THEN IF WrongChainID(cfg.l2ChainID, l2ChainID)
            THEN Fail("errWrongChainID") /\ UNCHANGED cfg
            ELSE pc' = "checkL1" /\ UNCHANGED <<newResult, cfg>>
       ELSE /\ cfg' = [cfg EXCEPT !.l2ChainID = l2ChainID]
            /\ pc' = "checkL1"
            /\ UNCHANGED newResult
    /\ UNCHANGED <<owner, startResult, connVars, l1ChainID, l2ChainID,
                   ownerRead, guardLog, lifeVars, ctlVars>>

\* Lines 293-300 without the else branch: an absent L1 id stays absent.
CheckL1ChainIDNoAdopt ==
    /\ pc = "checkL1"
    /\ ~crashed
    /\ IF cfg.l1ChainID # Nil /\ WrongChainID(cfg.l1ChainID, l1ChainID)
       THEN Fail("errWrongChainID")
       ELSE pc' = "checkKey" /\ UNCHANGED newResult
    /\ UNCHANGED <<cfg, owner, startResult, connVars, l1ChainID, l2ChainID,
                   ownerRead, guardLog, lifeVars, ctlVars>>

\* Lines 293-300.
CheckL1ChainID ==
    /\ pc = "checkL1"
    /\ ~crashed
    /\ IF cfg.l1ChainID # Nil
       THEN IF WrongChainID(cfg.l1ChainID, l1ChainID)
            THEN Fail("errWrongChainID") /\ UNCHANGED cfg
            ELSE pc' = "checkKey" /\ UNCHANGED <<newResult, cfg>>
       ELSE /\ cfg' = [cfg EXCEPT !.l1ChainID = l1ChainID]
            /\ pc' = "checkKey"
            /\ UNCHANGED newResult
    /\ UNCHANGED <<owner, startResult, connVars, l1ChainID, l2ChainID,
                   ownerRead, guardLog, lifeVars, ctlVars>>

\* Lines 302-304 removed: construction goes on without a key.
CheckKeySkipped ==
    /\ pc = "checkKey"
    /\ ~crashed
    /\ pc' = "tip"
    /\ UNCHANGED <<cfg, owner, newResult, startResult, connVars, l1ChainID,
                   l2ChainID, ownerRead, guardLog, lifeVars, ctlVars>>

\* Lines 302-304.
CheckKey ==
    /\ pc = "checkKey"
    /\ ~crashed
    /\ IF ~cfg.EnableHsm /\ cfg.privateKey = Nil
       THEN Fail("errNoPrivateKey")
       ELSE pc' = "tip" /\ UNCHANGED newResult
    /\ UNCHANGED <<cfg, owner, startResult, connVars, l1ChainID, l2ChainID,
                   ownerRead, guardLog, lifeVars, ctlVars>>

\* Lines 306-312: the epoch starts at the tip.
ReadTip ==
    /\ pc = "tip"
    /\ ~crashed
    /\ \E ok \in BOOLEAN :
         IF ok
         THEN /\ epochStartBlockNumber' = Len(chain)
              /\ pc' = "updater"
              /\ UNCHANGED newResult
         ELSE /\ Fail("errRPC")
              /\ UNCHANGED epochStartBlockNumber
    /\ UNCHANGED <<cfg, owner, startResult, connVars, l1ChainID, l2ChainID,
                   ownerRead, guardLog, lifeVars, chain, onChainPrice, rate, lastTick>>

\* Lines 315-342: the updater's callbacks and the updater itself.
BuildUpdater ==
    /\ pc = "updater"
    /\ ~crashed
    /\ \E out \in {"ok", "errWrapUpdate", "errUpdater"} :
         IF out = "ok"
         THEN pc' = "ensure" /\ UNCHANGED newResult
         ELSE Fail(out)
    /\ UNCHANGED <<cfg, owner, startResult, connVars, l1ChainID, l2ChainID,
                   ownerRead, guardLog, lifeVars, ctlVars>>

\* Lines 344-361 with ensure (108-126): the owner must be the signer.
Ensure ==
    /\ pc = "ensure"
    /\ ~crashed
    /\ \E ok \in BOOLEAN :
         IF ~ok
         THEN /\ Fail("errRPC")
              /\ guardLog' = Append(guardLog, Guard("ensure", FALSE))
              /\ UNCHANGED <<ownerRead, crashed>>
         ELSE /\ ownerRead' = owner
              /\ IF ~cfg.EnableHsm /\ cfg.privateKey = Nil
                 THEN \* line 119 dereferences a nil key
                      /\ crashed' = TRUE
                      /\ guardLog' = Append(guardLog, Guard("ensure", FALSE))
                      /\ UNCHANGED <<pc, newResult>>
                 ELSE /\ UNCHANGED crashed
                      /\ guardLog' =
                            Append(guardLog,
                                   Guard("ensure", SigningAddress(cfg) = owner))
                      /\ IF SigningAddress(cfg) # owner
                         THEN Fail("errInvalidSigningKey")
                         ELSE pc' = "constructed" /\ newResult' = "nil"
    /\ UNCHANGED <<cfg, owner, startResult, connVars, l1ChainID, l2ChainID,
                   loops, ctxDone, stopClosed, waitState, stopCalls,
                   firesAfterStop, cancelTaken, lastReturn,
                   ctlVars>>

\* ------------------------------------------------------------------ Start

LoopEnabled(c, l) ==
    CASE l = "BaseFeeLoop" -> c.enableL1BaseFee
      [] l = "DaFeeLoop" -> c.enableDaFee
      [] l = "Loop" -> c.enableL2GasPrice

\* Lines 54-78: the error Start returns, given whether the GasPrice read
\* of line 73 succeeds.
StartChecks(c, readOk) ==
    IF c.l1ChainID = Nil THEN "errNoChainID"
    ELSE IF c.l2ChainID = Nil THEN "errNoChainID"
    ELSE IF ~c.EnableHsm /\ c.privateKey = Nil THEN "errNoPrivateKey"
    ELSE IF ~readOk THEN "errRPC"
    ELSE "nil"

\* Lines 84-92 moved before the checks: the goroutines are launched whatever
\* Start returns.
StartLaunchesBeforeChecks(c, err) ==
    [l \in LoopNames |-> IF LoopEnabled(c, l) THEN "launched" ELSE "notLaunched"]

\* Lines 84-92: the goroutines Start has launched when it returns err.
StartLaunches(c, err) ==
    [l \in LoopNames |->
        IF err = "nil" /\ LoopEnabled(c, l) THEN "launched" ELSE "notLaunched"]

Start ==
    /\ pc = "constructed"
    /\ ~crashed
    /\ \E readOk \in BOOLEAN :
         LET err == StartChecks(cfg, readOk) IN
         /\ startResult' = err
         /\ loops' = StartLaunches(cfg, err)
         /\ pc' = IF err = "nil" THEN "started" ELSE "startFailed"
    /\ UNCHANGED <<cfg, owner, newResult, connVars, l1ChainID, l2ChainID,
                   ownerRead, guardLog, ctxDone, stopClosed, waitState, crashed,
                   stopCalls, firesAfterStop, cancelTaken, lastReturn,
                   ctlVars>>

\* ------------------------------------------------------------ Stop, Wait

\* Line 98: close(g.stop); closing a closed channel panics.
CloseStop ==
    IF stopClosed
    THEN crashed' = TRUE /\ UNCHANGED stopClosed
    ELSE stopClosed' = TRUE /\ UNCHANGED crashed

\* The caller calls Stop() once.
Stop ==
    /\ pc = "started"
    /\ ~crashed
    /\ stopCalls = 0
    /\ stopCalls' = stopCalls + 1
    /\ CloseStop
    /\ UNCHANGED <<cfg, owner, pc, newResult, startResult, connVars, l1ChainID,
                   l2ChainID, ownerRead, guardLog, loops, ctxDone, waitState,
                   firesAfterStop, cancelTaken, lastReturn,
                   ctlVars>>

\* Line 101: a goroutine enters Wait().
WaitCall ==
    /\ pc = "started"
    /\ ~crashed
    /\ waitState = "idle"
    /\ waitState' = "blocked"
    /\ UNCHANGED <<cfg, owner, pc, newResult, startResult, connVars, l1ChainID,
                   l2ChainID, ownerRead, guardLog, loops, ctxDone, stopClosed, crashed,
                   stopCalls, firesAfterStop, cancelTaken, lastReturn,
                   ctlVars>>

\* Line 102: the receive from g.stop completes once the channel is closed.
WaitReturn ==
    /\ waitState = "blocked"
    /\ ~crashed
    /\ stopClosed
    /\ waitState' = "returned"
    /\ UNCHANGED <<cfg, owner, pc, newResult, startResult, connVars, l1ChainID,
                   l2ChainID, ownerRead, guardLog, loops, ctxDone, stopClosed, crashed,
                   stopCalls, firesAfterStop, cancelTaken, lastReturn,
                   ctlVars>>

\* ------------------------------------------------- the L2 price controller

RECURSIVE SumGas(_, _, _)
\* Gas used by the blocks after number from, up to and including number to.
SumGas(c, from, to) ==
    IF to <= from THEN 0 ELSE c[to] + SumGas(c, from, to - 1)

Max(a, b) == IF a >= b THEN a ELSE b

\* Step 3: the target of a window of that many blocks.
TargetGas(c, blocks) == c.averageBlockGasLimitPerEpoch * blocks

\* Steps 4-5 without the clamp: the change is proportional to the load.
PriceChangeUnclamped(cur, used, target, m) ==
    IF target = 0 THEN 0
    ELSE IF used >= target
    THEN (cur * (used - target)) \div target
    ELSE 0 - ((cur * (target - used)) \div target)

\* Steps 4-5: the change of the price for the measured load, its percentage
\* clamped to m; a window without blocks is neutral.
PriceChange(cur, used, target, m) ==
    IF target = 0 THEN 0
    ELSE IF used >= target
    THEN IF (used - target) * 100 > m * target
         THEN (cur * m) \div 100
         ELSE (cur * (used - target)) \div target
    ELSE IF (target - used) * 100 > m * target
         THEN 0 - ((cur * m) \div 100)
         ELSE 0 - ((cur * (target - used)) \div target)

\* Step 6.
CandidatePrice(cur, used, target, m) == cur + PriceChange(cur, used, target, m)

\* Step 7: the floor in chain-native units at the feed's rate.
ConvertFloor(floorPrice, r) == floorPrice * r

\* Step 7 without the floor.
NextPriceNoFloor(cur, used, target, c, r) ==
    CandidatePrice(cur, used, target, c.maxPercentChangePerEpoch)

\* Step 7: the price the tick settles on.
NextPrice(cur, used, target, c, r) ==
    Max(CandidatePrice(cur, used, target, c.maxPercentChangePerEpoch),
        ConvertFloor(c.floorPrice, r))

\* Step 8 without the comparison: every tick sends a transaction.
SubmitsTxAlways(cur, new) == TRUE

\* Step 8: whether the tick sends a transaction.
SubmitsTx(cur, new) == new # cur

\* A tick that ended before the controller computed anything.
EarlyTick(err) ==
    [kind |-> "tick", err |-> err, computed |-> FALSE, cur |-> onChainPrice,
     start |-> epochStartBlockNumber, latest |-> epochStartBlockNumber,
     rate |-> rate, used |-> 0, target |-> 0, candidate |-> onChainPrice, floor |-> 0,
     new |-> onChainPrice, submitted |-> FALSE, after |-> onChainPrice,
     nextStart |-> epochStartBlockNumber]

\* gasPriceUpdater.UpdateGasPrice, steps 1-9 of the controller. latestOk and
\* txOk are the outcomes of the block-number read and of the transaction;
\* advance says whether a tick whose transaction failed still moves the window.
UpdateGasPrice(latestOk, txOk, advance) ==
    IF ~latestOk THEN EarlyTick("errUpdate")
    ELSE
    LET latest == Len(chain)
        start  == epochStartBlockNumber
        used   == SumGas(chain, start, latest)
        target == TargetGas(cfg, latest - start)
        cur    == onChainPrice
        cand   == CandidatePrice(cur, used, target, cfg.maxPercentChangePerEpoch)
        new    == NextPrice(cur, used, target, cfg, rate)
        sub    == SubmitsTx(cur, new)
        failed == sub /\ ~txOk
    IN [kind |-> "tick", err |-> IF failed THEN "errUpdate" ELSE "nil",
        computed |-> TRUE, cur |-> cur, start |-> start, latest |-> latest,
        rate |-> rate,
        used |-> used, target |-> target, candidate |-> cand,
        floor |-> ConvertFloor(cfg.floorPrice, rate), new |-> new,
        submitted |-> sub,
        after |-> IF sub /\ txOk THEN new ELSE cur,
        nextStart |-> IF failed /\ ~advance THEN start ELSE latest]

\* Lines 190-212 without the call of line 198: Update only reads the price
\* twice.
UpdateTickSkipsUpdater(read1Ok, latestOk, txOk, advance, read2Ok) ==
    EarlyTick(IF read1Ok /\ read2Ok THEN "nil" ELSE "errGasPrice")

\* Lines 190-212: Update reads the price, runs the updater, reads the price
\* again; each read may fail.
UpdateTick(read1Ok, latestOk, txOk, advance, read2Ok) ==
    IF ~read1Ok THEN EarlyTick("errGasPrice")
    ELSE LET u == UpdateGasPrice(latestOk, txOk, advance) IN
         IF u.err # "nil" THEN u
         ELSE IF ~read2Ok THEN [u EXCEPT !.err = "errGasPrice"]
         ELSE u

Update ==
    \E read1Ok, latestOk, txOk, advance, read2Ok \in BOOLEAN :
        LET t == UpdateTick(read1Ok, latestOk, txOk, advance, read2Ok) IN
        /\ lastTick' = t
        /\ onChainPrice' = t.after
        /\ epochStartBlockNumber' = t.nextStart
        /\ UNCHANGED <<chain, rate>>

\* -------------------------------------------------------------- the loops

\* Lines 151-154, 171-174 with the error logged and the goroutine returning
\* in place of panic(err).
LoopInitSwallowsFailure(l) ==
    /\ loops[l] = "launched"
    /\ ~crashed
    /\ \E ok \in BOOLEAN :
         loops' = [loops EXCEPT
                     ![l] = IF ok \/ l = "Loop" THEN "waiting" ELSE "buildFailed"]
    /\ UNCHANGED <<cfg, owner, pc, newResult, startResult, connVars, l1ChainID,
                   l2ChainID, ownerRead, guardLog, ctxDone, stopClosed, waitState,
                   crashed, stopCalls, firesAfterStop, cancelTaken, lastReturn,
                   ctlVars>>

\* Lines 130-131, 148-154, 168-174: the goroutine creates its ticker; the
\* fee loops build their update function and panic when that fails.
LoopInit(l) ==
    /\ loops[l] = "launched"
    /\ ~crashed
    /\ \E ok \in BOOLEAN :
         IF ok \/ l = "Loop"
         THEN /\ loops' = [loops EXCEPT ![l] = "waiting"]
              /\ UNCHANGED crashed
         ELSE /\ crashed' = TRUE
              /\ loops' = [loops EXCEPT ![l] = "buildFailed"]
    /\ UNCHANGED <<cfg, owner, pc, newResult, startResult, connVars, l1ChainID,
                   l2ChainID, ownerRead, guardLog, ctxDone, stopClosed, waitState,
                   stopCalls, firesAfterStop, cancelTaken, lastReturn,
                   ctlVars>>

\* Line 347 with a context that is already cancelled: ctx.Done() delivers
\* at every select.
ReadyChannelsCancelled == {"timer", "done"}

\* The channels of the select that can deliver: the ticker fires in time,
\* ctx.Done() delivers only when the context is cancelled.
ReadyChannels == {"timer"} \cup (IF ctxDone THEN {"done"} ELSE {})

CountFire(n) == IF n < MaxFiresAfterStop THEN n + 1 ELSE n

\* Lines 134-143, 156-163, 177-185: the select. On the timer the loop enters
\* its update call; on ctx.Done() it calls g.Stop() and selects again.
LoopSelect(l) ==
    /\ loops[l] = "waiting"
    /\ ~crashed
    /\ \E ch \in ReadyChannels :
         IF ch = "timer"
         THEN /\ loops' = [loops EXCEPT ![l] = "updating"]
              /\ firesAfterStop' =
                    IF stopClosed
                    THEN [firesAfterStop EXCEPT ![l] = CountFire(firesAfterStop[l])]
                    ELSE firesAfterStop
              /\ UNCHANGED <<stopClosed, crashed, cancelTaken>>
         ELSE /\ CloseStop
              /\ cancelTaken' = [cancelTaken EXCEPT ![l] = cancelTaken[l] + 1]
              /\ UNCHANGED <<loops, firesAfterStop>>
    /\ UNCHANGED <<cfg, owner, pc, newResult, startResult, connVars, l1ChainID,
                   l2ChainID, ownerRead, guardLog, ctxDone, waitState, stopCalls,
                   lastReturn, ctlVars>>

\* Lines 137-139, 158-160, 179-181 with a return in the if err != nil block:
\* the loop ends at its first failed update.
LoopReturnExitsOnError(l) ==
    /\ loops[l] = "updating"
    /\ ~crashed
    /\ IF l = "Loop"
       THEN /\ Update
            /\ lastReturn' = Returned(l, lastTick'.err)
       ELSE /\ \E err \in {"nil", "errUpdate"} : lastReturn' = Returned(l, err)
            /\ UNCHANGED ctlVars
    /\ loops' = [loops EXCEPT
                  ![l] = IF lastReturn' = NoReturn THEN "waiting" ELSE "exited"]
    /\ UNCHANGED <<cfg, owner, pc, newResult, startResult, connVars, l1ChainID,
                   l2ChainID, ownerRead, guardLog, ctxDone, stopClosed, waitState,
                   crashed, stopCalls, firesAfterStop, cancelTaken>>

\* Lines 137-139, 158-160, 179-181: the update call returns, its error is
\* logged, and the loop selects again.
LoopReturn(l) ==
    /\ loops[l] = "updating"
    /\ ~crashed
    /\ loops' = [loops EXCEPT ![l] = "waiting"]
    /\ IF l = "Loop"
       THEN /\ Update
            /\ lastReturn' = Returned(l, lastTick'.err)
       ELSE /\ \E err \in {"nil", "errUpdate"} : lastReturn' = Returned(l, err)
            /\ UNCHANGED ctlVars
    /\ UNCHANGED <<cfg, owner, pc, newResult, startResult, connVars, l1ChainID,
                   l2ChainID, ownerRead, guardLog, ctxDone, stopClosed, waitState,
                   crashed, stopCalls, firesAfterStop, cancelTaken>>

\* ------------------------------------------------------------ environment

\* The L2 chain grows by a block.
NewBlock ==
    /\ Len(chain) < MaxBlocks
    /\ \E g \in BlockGas : chain' = Append(chain, g)
    /\ UNCHANGED <<cfg, owner, pc, newResult, startResult, connVars, l1ChainID,
                   l2ChainID, ownerRead, guardLog, lifeVars, onChainPrice,
                   epochStartBlockNumber, rate, lastTick>>

\* The price feed reports another rate.
SetRate ==
    /\ \E r \in Rates \ {rate} : rate' = r
    /\ UNCHANGED <<cfg, owner, pc, newResult, startResult, connVars, l1ChainID,
                   l2ChainID, ownerRead, guardLog, lifeVars, chain, onChainPrice,
                   epochStartBlockNumber, lastTick>>

\* Line 109: Owner() reads the contract's state, which its owner can hand to
\* another address; here it does so once, while the oracle runs.
TransferOwnership ==
    /\ pc = "started"
    /\ owner = ownerRead
    /\ \E a \in Addresses \ {owner} : owner' = a
    /\ UNCHANGED <<cfg, pc, newResult, startResult, connVars, l1ChainID,
                   l2ChainID, ownerRead, guardLog, lifeVars, ctlVars>>

\* Lines 141, 161, 183: the context the loops select on is cancelled.
CancelCtx ==
    /\ ~ctxDone
    /\ ctxDone' = TRUE
    /\ UNCHANGED <<cfg, owner, pc, newResult, startResult, connVars, l1ChainID,
                   l2ChainID, ownerRead, guardLog, loops, stopClosed, waitState,
                   crashed, stopCalls, firesAfterStop, cancelTaken, lastReturn,
                   ctlVars>>

\* --------------------------------------------------------- specifications

Next ==
    \/ Dial
    \/ EnsureQuery
    \/ EnsureTick
    \/ ConnReturn
    \/ Bind
    \/ ReadChainIDs
    \/ CheckL2ChainID
    \/ CheckL1ChainID
    \/ CheckKey
    \/ ReadTip
    \/ BuildUpdater
    \/ Ensure
    \/ Start
    \/ Stop
    \/ WaitCall
    \/ WaitReturn
    \/ \E l \in LoopNames : LoopInit(l)
    \/ \E l \in LoopNames : LoopSelect(l)
    \/ \E l \in LoopNames : LoopReturn(l)

\* Startup and lifecycle of the process on a quiet chain.
Spec == Init /\ [][Next]_vars

NextGuards ==
    \/ Dial
    \/ EnsureQuery
    \/ EnsureTick
    \/ ConnReturn
    \/ Bind
    \/ ReadChainIDs
    \/ CheckL2ChainID
    \/ CheckL1ChainID
    \/ CheckKey
    \/ ReadTip
    \/ BuildUpdater
    \/ Ensure
    \/ Start
    \/ \E l \in LoopNames : LoopInit(l)
    \/ \E l \in LoopNames : LoopSelect(l)
    \/ \E l \in LoopNames : LoopReturn(l)
    \/ TransferOwnership

\* Startup and the loops while the contract changes its owner.
SpecGuards == InitGuards /\ [][NextGuards]_vars

NextCtl ==
    \/ Start
    \/ \E l \in LoopNames : LoopInit(l)
    \/ \E l \in LoopNames : LoopSelect(l)
    \/ \E l \in LoopNames : LoopReturn(l)
    \/ NewBlock
    \/ SetRate

\* The constructed oracle ticking while the chain and the price feed move.
SpecCtl == InitCtl /\ [][NextCtl]_vars

NextCancel ==
    \/ Start
    \/ Stop
    \/ WaitCall
    \/ WaitReturn
    \/ \E l \in LoopNames : LoopInit(l)
    \/ \E l \in LoopNames : LoopSelect(l)
    \/ \E l \in LoopNames : LoopReturn(l)
    \/ CancelCtx

\* The loops of a GasPriceOracle whose ctx field (line 42) holds a context
\* that gets cancelled.
SpecCancel == InitCancel /\ [][NextCancel]_vars

\* ------------------------------------------------------------- properties

NoLoopLaunched == \A l \in LoopNames : loops[l] = "notLaunched"

\* The address of the active signer as the configuration states it.
ActiveSigner ==
    IF cfg.EnableHsm
    THEN (IF cfg.HsmAddress \in {"0xA1", "0xa1"} THEN "a1" ELSE "a2")
    ELSE (IF cfg.privateKey = "k1" THEN "a1" ELSE "a2")

\* C1: when the contract returns an owner that differs from the address of
\* the active signer (the HSM address with EnableHsm, the key's address
\* otherwise), NewGasPriceOracle has failed with errInvalidSigningKey, Start
\* is never reached and no loop is launched.
C1_OwnerMismatchFailsStartup ==
    (/\ ownerRead # Nil
     /\ cfg.EnableHsm \/ cfg.privateKey # Nil
     /\ ActiveSigner # ownerRead)
    => /\ pc = "failed"
       /\ newResult = "errInvalidSigningKey"
       /\ startResult = "pending"
       /\ NoLoopLaunched

\* C1: the HSM signer is not the owner and startup has ended with the error.
C1_Witness ==
    /\ cfg.EnableHsm
    /\ ownerRead = "a1"
    /\ ActiveSigner = "a2"
    /\ newResult = "errInvalidSigningKey"

\* C2, the states: ensureConnection returns the error only when its 91st
\* consecutive query has failed, and has returned it by then; it returns nil
\* after at most 90 failures and one successful query; a connection error
\* ends startup without a loop.
C2_ConnectionStates ==
    /\ connPhase = "err" => retries = MaxRetries + 1 /\ queries = MaxRetries + 1
    /\ retries > MaxRetries => connPhase = "err"
    /\ connPhase = "nil" => retries <= MaxRetries /\ queries = retries + 1
    /\ newResult = "errConnection"
         => pc = "failed" /\ startResult = "pending" /\ NoLoopLaunched

\* C2, the steps: the error becomes the result of NewGasPriceOracle; after a
\* success the next step leaves ensureConnection for the next stage of
\* startup without another query.
C2_ConnectionSteps ==
    /\ connPhase = "err" => pc' = "failed" /\ newResult' = "errConnection"
    /\ connPhase = "nil"
         => /\ pc' = (IF pc = "ensureL2" THEN "ensureL1" ELSE "bind")
            /\ newResult' = "pending"
            /\ queries' = 0

\* C2: per endpoint, more than 90 consecutive failed chain-id queries make
\* ensureConnection return the error and startup fail without a loop; a
\* success after at most 90 failures makes it return nil with no further
\* query, and startup proceeds.
C2_EnsureConnectionRetries ==
    [](C2_ConnectionStates) /\ [][C2_ConnectionSteps]_vars

\* C2: the layer-one endpoint answered after exactly 90 failures.
C2_Witness ==
    /\ pc = "ensureL1"
    /\ connPhase = "nil"
    /\ retries = MaxRetries

\* C3, the L2 check: a configured id that differs from the live one fails
\* construction with errWrongChainID and leaves the config alone; an absent
\* id is replaced by the live one and construction goes on; an equal id
\* leaves the config alone and construction goes on.
C3_CheckL2Step ==
    pc = "checkL2" =>
        IF cfg.l2ChainID # Nil /\ cfg.l2ChainID # LiveChainID.L2
        THEN pc' = "failed" /\ newResult' = "errWrongChainID" /\ cfg' = cfg
        ELSE /\ pc' = "checkL1"
             /\ newResult' = "pending"
             /\ cfg' = [cfg EXCEPT !.l2ChainID = LiveChainID.L2]
             /\ cfg.l2ChainID # Nil => cfg' = cfg

\* C3, the L1 check: the same for layer one.
C3_CheckL1Step ==
    pc = "checkL1" =>
        IF cfg.l1ChainID # Nil /\ cfg.l1ChainID # LiveChainID.L1
        THEN pc' = "failed" /\ newResult' = "errWrongChainID" /\ cfg' = cfg
        ELSE /\ pc' = "checkKey"
             /\ newResult' = "pending"
             /\ cfg' = [cfg EXCEPT !.l1ChainID = LiveChainID.L1]
             /\ cfg.l1ChainID # Nil => cfg' = cfg

\* C3, the states: with errWrongChainID no oracle exists and nothing runs;
\* past both checks the config holds the live ids.
C3_ChainIDStates ==
    /\ newResult = "errWrongChainID"
         => pc = "failed" /\ ownerRead = Nil /\ NoLoopLaunched
    /\ pc \in {"checkKey", "tip", "updater", "ensure", "constructed", "started",
               "startFailed"}
         => cfg.l1ChainID = LiveChainID.L1 /\ cfg.l2ChainID = LiveChainID.L2

\* C3: for L2 and for L1, a configured chain id that differs from the live
\* value makes NewGasPriceOracle fail with errWrongChainID and no oracle is
\* constructed; an absent one is set to the live value and construction
\* continues; an equal one leaves the config unchanged.
C3_ChainIDChecks ==
    /\ [](C3_ChainIDStates)
    /\ [][C3_CheckL2Step /\ C3_CheckL1Step]_vars

\* C3: the L2 id passed its check and the configured L1 id is the wrong one.
C3_Witness ==
    /\ newResult = "errWrongChainID"
    /\ cfg.l2ChainID = LiveChainID.L2
    /\ cfg.l1ChainID = "5000"

\* C4: once Stop() has been called, a launched loop takes at most the timer
\* fires that one of its tick periods can deliver (a buffered one and the
\* next) and enters no update step after them.
C4_LoopsStopTickingAfterStop ==
    stopCalls > 0 => \A l \in LoopNames : firesAfterStop[l] <= 2

\* C5: no two of Loop, BaseFeeLoop and DaFeeLoop are inside their update
\* call at the same time.
C5_UpdatesAreSerialized ==
    Cardinality({l \in LoopNames : loops[l] = "updating"}) <= 1

\* C6: a loop is launched only with its enable flag set and only by a Start
\* that passed all its checks; a Start that returned an error has launched
\* no loop.
C6_StartLaunchesOnlyAfterChecks ==
    /\ loops["BaseFeeLoop"] # "notLaunched" => cfg.enableL1BaseFee
    /\ loops["DaFeeLoop"] # "notLaunched" => cfg.enableDaFee
    /\ loops["Loop"] # "notLaunched" => cfg.enableL2GasPrice
    /\ ~NoLoopLaunched
         => /\ startResult = "nil"
            /\ cfg.l1ChainID # Nil
            /\ cfg.l2ChainID # Nil
            /\ cfg.EnableHsm \/ cfg.privateKey # Nil
    /\ startResult \notin {"pending", "nil"} => NoLoopLaunched
    /\ pc = "started"
         => \A l \in LoopNames :
              loops[l] = "notLaunched"
                <=> ~(CASE l = "BaseFeeLoop" -> cfg.enableL1BaseFee
                        [] l = "DaFeeLoop" -> cfg.enableDaFee
                        [] l = "Loop" -> cfg.enableL2GasPrice)

\* C6: Start returned the error of the gas price read with all three loops
\* enabled.
C6_Witness ==
    /\ pc = "startFailed"
    /\ startResult = "errRPC"
    /\ cfg.enableL1BaseFee /\ cfg.enableDaFee /\ cfg.enableL2GasPrice
    /\ NoLoopLaunched

\* C7: Wait() returns only after Stop() was called, and when it has returned
\* no launched loop is running or inside an update step.
C7_WaitReturnsAfterShutdown ==
    waitState = "returned"
        => /\ stopCalls > 0
           /\ \A l \in LoopNames :
                loops[l] \notin {"launched", "waiting", "updating"}

\* The last Update() ran the controller's computation.
Computed == lastTick.kind = "tick" /\ lastTick.computed

Abs(x) == IF x < 0 THEN 0 - x ELSE x

\* C8: in every tick the change the controller applies to the current price
\* is at most maxPercentChangePerEpoch percent of it, whatever the load; with
\* price 1000, target 1000, gas used 2000 and 10 percent the new price is
\* 1100.
C8_PercentChangeIsClamped ==
    Computed =>
        /\ Abs(lastTick.candidate - lastTick.cur) * 100
             <= cfg.maxPercentChangePerEpoch * lastTick.cur
        /\ (/\ lastTick.cur = 1000
            /\ lastTick.target = 1000
            /\ lastTick.used = 2000
            /\ cfg.maxPercentChangePerEpoch = 10
            /\ cfg.floorPrice * lastTick.rate <= 1100)
           => lastTick.new = 1100

\* C8: the scenario: price 1000, two blocks with target 1000 and gas used
\* 2000, a 10 percent bound; the price on chain is then 1100.
C8_Witness ==
    /\ Computed
    /\ lastTick.cur = 1000
    /\ lastTick.target = 1000
    /\ lastTick.used = 2000
    /\ cfg.maxPercentChangePerEpoch = 10
    /\ lastTick.submitted
    /\ onChainPrice = 1100

\* C9: after an Update() that returned nil the price on chain is at least
\* the floor price converted at the rate the tick read.
C9_PriceAtLeastConvertedFloor ==
    (Computed /\ lastTick.err = "nil")
        => onChainPrice >= cfg.floorPrice * lastTick.rate

\* C9: a tick whose candidate was below the converted floor put the floor
\* on chain.
C9_Witness ==
    /\ Computed
    /\ lastTick.err = "nil"
    /\ lastTick.candidate < cfg.floorPrice * lastTick.rate
    /\ lastTick.submitted
    /\ onChainPrice = cfg.floorPrice * lastTick.rate

\* C10 as stated, for a window that holds blocks: a tick whose window used
\* exactly the target gas submits no transaction and leaves the price on
\* chain unchanged.
C10_NoTransactionAtTarget ==
    (Computed /\ lastTick.latest > lastTick.start
              /\ lastTick.used = lastTick.target)
        => ~lastTick.submitted /\ lastTick.after = lastTick.cur

\* C10 amended: a tick whose window used exactly the target gas, with the
\* converted floor not above the current price, submits no transaction and
\* leaves the price on chain unchanged.
C10_NoTransactionAtTargetAboveFloor ==
    (/\ Computed
     /\ lastTick.used = lastTick.target
     /\ cfg.floorPrice * lastTick.rate <= lastTick.cur)
        => ~lastTick.submitted /\ lastTick.after = lastTick.cur

\* C10: a window of two blocks used exactly its target and the tick sent
\* nothing.
C10_Witness ==
    /\ Computed
    /\ lastTick.target = 1000
    /\ lastTick.used = 1000
    /\ cfg.floorPrice * lastTick.rate <= lastTick.cur
    /\ ~lastTick.submitted
    /\ lastTick.err = "nil"

C12_StartReportsBuildFailure ==
    ~(startResult = "nil" /\ \E l \in LoopNames : loops[l] = "buildFailed")

C12_BuildFailureIsFatal ==
    \A l \in LoopNames :
        loops[l] = "buildFailed"
            => /\ crashed
               /\ l \in {"BaseFeeLoop", "DaFeeLoop"}
               /\ LoopEnabled(cfg, l)

C12_NothingRunsAfterPanic ==
    crashed => UNCHANGED <<pc, startResult, loops, stopClosed, waitState,
                           lastReturn, lastTick, onChainPrice>>

\* C12: a failure to build the update function of an enabled fee loop is not
\* swallowed: it happens in the goroutine Start() has launched, it panics, and
\* from then on no loop of the process takes a step.
C12_BuildFailureAbortsProcess ==
    /\ [](C12_BuildFailureIsFatal)
    /\ [][C12_NothingRunsAfterPanic]_vars

\* C12: Start() returned nil, then DaFeeLoop failed to build its update
\* function while Loop was inside an update.
C12_Witness ==
    /\ startResult = "nil"
    /\ loops["DaFeeLoop"] = "buildFailed"
    /\ loops["Loop"] = "updating"
    /\ crashed

\* The step in which the update call of loop l returns an error.
C13_UpdateFails(l) ==
    /\ loops[l] = "updating"
    /\ loops'[l] # "updating"
    /\ lastReturn' # NoReturn
    /\ lastReturn'.loop = l

C13_FailedUpdateStep ==
    \A l \in LoopNames :
        C13_UpdateFails(l)
            => /\ loops'[l] = "waiting"
               /\ \A k \in LoopNames \ {l} : loops'[k] = loops[k]
               /\ ~crashed'
               /\ UNCHANGED <<stopClosed, firesAfterStop, cancelTaken>>
               /\ l # "Loop" => UNCHANGED ctlVars

C13_WaitingLoopStep ==
    \A l \in LoopNames :
        loops[l] = "waiting" /\ loops'[l] # "waiting" => loops'[l] = "updating"

C13_FailedLoopCanTick ==
    \A l \in LoopNames :
        lastReturn # NoReturn /\ lastReturn.loop = l /\ ~crashed
            => loops[l] \in {"waiting", "updating"}
               /\ (loops[l] = "waiting" => ENABLED LoopSelect(l))

\* C13: the step in which a loop's update call returns an error leaves that
\* loop waiting in its select, leaves every other loop and the shared state
\* as they were and does not panic; the loop is then able to take its next
\* timer fire, and the only way it leaves the select is into its next update.
C13_PerTickErrorsAreContained ==
    /\ [](C13_FailedLoopCanTick)
    /\ [][C13_FailedUpdateStep /\ C13_WaitingLoopStep]_vars

\* C13: the last update of BaseFeeLoop failed and the loop is inside its next
\* update, while the last tick of Loop ended in an error too and Loop waits.
C13_Witness ==
    /\ lastReturn = [loop |-> "BaseFeeLoop", err |-> "errUpdate"]
    /\ loops["BaseFeeLoop"] = "updating"
    /\ lastTick # NoTick
    /\ lastTick.err # "nil"
    /\ loops["Loop"] = "waiting"

\* Guards of NewGasPriceOracle that have returned, by name.
C14_GuardRuns(name) ==
    Cardinality({i \in DOMAIN guardLog : guardLog[i].guard = name})

C14_GuardsBeforeLoops ==
    /\ C14_GuardRuns("ensure") <= 1
    /\ C14_GuardRuns("ensureConnectionL2") <= 1
    /\ C14_GuardRuns("ensureConnectionL1") <= 1
    /\ ~NoLoopLaunched => guardLog = GuardsPassed

C14_NoGuardAfterLaunch ==
    ~NoLoopLaunched => UNCHANGED <<guardLog, ownerRead, connVars>>

\* C14: when any loop has been launched, NewGasPriceOracle has run exactly the
\* L2 connectivity check, then the L1 connectivity check, then the ownership
\* check, each once and each with success; no run performs a guard twice, and
\* once a loop is launched no guard runs again, whoever owns the contract.
C14_GuardsRunOnceBeforeLoops ==
    /\ [](C14_GuardsBeforeLoops)
    /\ [][C14_NoGuardAfterLaunch]_vars

\* C14: the owner has changed since ensure() read it and is no longer the
\* signer, and Loop is inside an update.
C14_Witness ==
    /\ guardLog = GuardsPassed
    /\ ownerRead # Nil
    /\ owner # ownerRead
    /\ SigningAddress(cfg) # owner
    /\ loops["Loop"] = "updating"
    /\ lastTick # NoTick

\* The step in which a tick of Loop ends: g.Update() returns.
C15_TickEnds == loops["Loop"] = "updating" /\ loops'["Loop"] = "waiting"

\* C15 as stated, for the tick it names: when Update() fails at its first
\* read of the gas price, the window starts at the chain's latest block
\* after the tick.
C15_WindowAdvancesOnFailedRead ==
    [][C15_TickEnds /\ lastTick'.err = "errGasPrice" /\ ~lastTick'.computed
          => epochStartBlockNumber' = Len(chain)]_vars

C15_WindowStep ==
    C15_TickEnds
        => /\ lastTick'.computed /\ lastTick'.err # "errUpdate"
                => /\ epochStartBlockNumber' = Len(chain)
                   /\ lastTick'.latest = Len(chain)
           /\ ~lastTick'.computed
                => /\ epochStartBlockNumber' = epochStartBlockNumber
                   /\ lastTick'.err # "nil"

\* C15: after a tick of Loop in which the updater returned nil, with or
\* without a price change and also when only the closing read of the price
\* failed, the epoch window starts at the latest block of the chain at that
\* tick; a tick that failed before the updater read the block number, as at
\* the first read of the gas price, leaves the window where it was.
C15_WindowFollowsCompletedTicks == [][C15_WindowStep]_vars

\* C15: a tick over a window of at least one block returned nil without
\* submitting a price, and the window starts at the block it observed.
C15_Witness ==
    /\ Computed
    /\ lastTick.err = "nil"
    /\ ~lastTick.submitted
    /\ lastTick.latest > lastTick.start
    /\ epochStartBlockNumber = lastTick.latest

\* C16 as stated: at most 90 queries per endpoint, and the error is returned
\* when the 90th has failed.
C16_AtMostNinetyQueries ==
    InEnsureConnection
        => /\ queries <= MaxRetries
           /\ connPhase = "err" => queries = MaxRetries

\* C16: ensureConnection issues at most 91 chain-id queries per endpoint, one
\* at once and one after each of up to 90 ticker fires: a query has always
\* been preceded by as many ticker fires as there were queries before it. It
\* returns the connection error when the 91st query in a row has failed, and
\* not before.
C16_AtMostNinetyOneQueries ==
    InEnsureConnection
        => /\ queries <= MaxRetries + 1
           /\ ticks <= MaxRetries
           /\ ticks = IF connPhase = "query" THEN queries ELSE queries - 1
           /\ connPhase = "err" <=> retries = MaxRetries + 1
           /\ connPhase = "err" => queries = MaxRetries + 1

\* C16: the L1 endpoint has just failed its 91st query, after 90 ticker fires.
C16_Witness ==
    /\ pc = "ensureL1"
    /\ connPhase = "err"
    /\ queries = MaxRetries + 1
    /\ ticks = MaxRetries

\* Neither an HSM nor a private key is configured.
C17_MissingKey == ~cfg.EnableHsm /\ cfg.privateKey = Nil

C17_KeyStates ==
    /\ C17_MissingKey
          => /\ pc \in {"dial", "ensureL2", "ensureL1", "bind", "chainIDs",
                        "checkL2", "checkL1", "checkKey", "failed"}
             /\ \A i \in DOMAIN guardLog : guardLog[i].guard # "ensure"
             /\ ownerRead = Nil
             /\ ~crashed
             /\ NoLoopLaunched
    /\ newResult = "errNoPrivateKey" => C17_MissingKey
    /\ cfg.EnableHsm
          => /\ startResult # "errNoPrivateKey"
             /\ newResult = "nil" => ownerRead = HexToAddress(cfg.HsmAddress)

C17_CheckKeyStep ==
    pc = "checkKey" /\ pc' # "checkKey"
        => IF C17_MissingKey
           THEN pc' = "failed" /\ newResult' = "errNoPrivateKey"
           ELSE pc' = "tip" /\ newResult' = "pending"

\* C17: with HSM disabled and no private key, NewGasPriceOracle fails at its
\* key check with errNoPrivateKey when it gets there: it never calls ensure(),
\* never dereferences the nil key and returns no oracle, so no loop is
\* launched. With HSM enabled the key check passes whatever the key, no
\* no-private-key error is returned, and the owner is compared with the
\* address of HsmAddress.
C17_MissingKeyIsFatal ==
    /\ [](C17_KeyStates)
    /\ [][C17_CheckKeyStep]_vars

\* C17: both endpoints answered and the chain ids passed, then the key check
\* failed the construction.
C17_Witness ==
    /\ newResult = "errNoPrivateKey"
    /\ pc = "failed"
    /\ Len(guardLog) = 2
    /\ l1ChainID = LiveChainID.L1

\* C18: once NewGasPriceOracle has returned an oracle, the config holds the
\* L1 and L2 chain ids read from the endpoints during construction, neither
\* nil, and an HSM or a private key; Start() then returns nil or the error of
\* its gas price read, never errNoChainID or errNoPrivateKey.
C18_ConstructedConfigIsComplete ==
    /\ newResult = "nil"
          => /\ cfg.l1ChainID # Nil
             /\ cfg.l2ChainID # Nil
             /\ cfg.l1ChainID = l1ChainID
             /\ cfg.l2ChainID = l2ChainID
             /\ l1ChainID = LiveChainID.L1
             /\ l2ChainID = LiveChainID.L2
             /\ cfg.EnableHsm \/ cfg.privateKey # Nil
    /\ startResult # "pending" => newResult = "nil"
    /\ startResult \in {"pending", "nil", "errRPC"}

\* C18: Start() failed on its gas price read, on an oracle built with an HSM,
\* no private key and chain ids that construction filled in.
C18_Witness ==
    /\ startResult = "errRPC"
    /\ cfg.EnableHsm
    /\ cfg.privateKey = Nil
    /\ cfg.l1ChainID = LiveChainID.L1
    /\ NoLoopLaunched

C19_StopChannelStates ==
    /\ ~ctxDone
    /\ \A l \in LoopNames : cancelTaken[l] = 0
    /\ stopCalls <= 1
    /\ stopClosed <=> stopCalls = 1
    /\ crashed => \E l \in LoopNames : loops[l] = "buildFailed"

C19_StopChannelStep ==
    stopClosed' # stopClosed
        => /\ stopCalls' = stopCalls + 1
           /\ loops' = loops
           /\ ~crashed'

\* C19: the context of an oracle built by NewGasPriceOracle is never
\* cancelled, so no loop takes the ctx.Done() branch or calls Stop(); the
\* stop channel is closed by the caller's Stop() alone, in the step of that
\* call, and with one call by the caller no close hits a closed channel: the
\* only panic of the process is a fee loop that could not build its update.
C19_StopClosedOnlyByCaller ==
    /\ [](C19_StopChannelStates)
    /\ [][C19_StopChannelStep]_vars

\* C19: the caller has closed the stop channel and Wait() has returned, while
\* two loops have each taken a timer fire since and no cancellation branch.
C19_Witness ==
    /\ stopClosed
    /\ stopCalls = 1
    /\ waitState = "returned"
    /\ firesAfterStop["Loop"] >= 1
    /\ firesAfterStop["DaFeeLoop"] >= 1
    /\ ~crashed

====
